---------------------------- MODULE Spec2Model ----------------------------
(***************************************************************************)
(* A model of SVARIV/__init__.py: the numerical kernels of the SVAR-IV     *)
(* library (HAC covariance, MA representation, impulse responses, gradient *)
(* matrices and the MSW confidence sets).                                  *)
(*                                                                         *)
(* Numbers.  The code computes in IEEE doubles.  The model computes in     *)
(* exact extended rationals: a number is a pair <<num, den>> in lowest     *)
(* terms with den >= 0; <<1,0>> and <<-1,0>> are +inf and -inf and <<0,0>> *)
(* is not-a-number, with the IEEE rules for them (x/0, inf-inf, 0*inf,     *)
(* comparisons with nan are false).  Rounding error is not modelled.       *)
(*                                                                         *)
(* Arrays.  A 2-D array is a record [nr, nc, m] so that empty slices keep  *)
(* their shape, as numpy's do.  Python indices are 0-based, the model's    *)
(* are 1-based: Python's x[i] is the model's x[i+1].                       *)
(*                                                                         *)
(* Specifications.  SpecMA, SpecHAC and SpecCI draw the arguments of one   *)
(* call and apply the function to their values.  SpecFrame follows any     *)
(* sequence of calls at the level of memory: which array each name of a    *)
(* function body is bound to, and which arrays its statements write.       *)
(***************************************************************************)
EXTENDS Integers, Sequences, FiniteSets, TLC

VARIABLES
    betas,      \* the caller's coefficient matrix (n rows, one n-column block per lag)
    S,          \* the caller's covariance matrix / impact vector
    Vars,       \* the caller's stacked-variable matrix for the HAC estimator
    ci,         \* the caller's inputs of CI_dmethod: Gamma_hat, WHat, G, C
    ret,        \* the last call: function name, scalar arguments, outcome
    heap        \* what each array of the caller holds and which calls wrote into it

vars == <<betas, S, Vars, ci, ret, heap>>

---------------------------------------------------------------------------
(* Extended rational arithmetic (the model of numpy's float64)             *)

Abs(x) == IF x < 0 THEN -x ELSE x

Sign(x) == IF x < 0 THEN -1 ELSE IF x > 0 THEN 1 ELSE 0

Min(a, b) == IF a < b THEN a ELSE b

Max(a, b) == IF a < b THEN b ELSE a

RECURSIVE GCD(_, _)
GCD(a, b) == IF b = 0 THEN a ELSE GCD(b, a % b)

Rat(n, d) ==
    IF d = 0 THEN <<Sign(n), 0>>
    ELSE LET g == GCD(Abs(n), Abs(d))
             s == Sign(d)
         IN  <<(s * n) \div g, (s * d) \div g>>

Q(n) == <<n, 1>>

NaN == <<0, 0>>

PosInf == <<1, 0>>

NegInf == <<-1, 0>>

IsNaN(x) == x = NaN

IsInf(x) == x[2] = 0 /\ x[1] # 0

IsFinite(x) == x[2] # 0

RNeg(x) == <<-x[1], x[2]>>

RAdd(x, y) ==
    IF IsNaN(x) \/ IsNaN(y) THEN NaN
    ELSE IF IsInf(x) THEN (IF IsInf(y) /\ y # x THEN NaN ELSE x)
    ELSE IF IsInf(y) THEN y
    ELSE Rat(x[1] * y[2] + y[1] * x[2], x[2] * y[2])

RSub(x, y) == RAdd(x, RNeg(y))

RMul(x, y) == Rat(x[1] * y[1], x[2] * y[2])

RRecip(x) == Rat(x[2], x[1])

RDiv(x, y) == RMul(x, RRecip(y))

\* x < y and x > y as Python evaluates them on floats: false when either is nan
RLt(x, y) ==
    IF IsNaN(x) \/ IsNaN(y) THEN FALSE
    ELSE IF IsInf(x) /\ IsInf(y) THEN x[1] < y[1]
    ELSE x[1] * y[2] < y[1] * x[2]

RGt(x, y) == RLt(y, x)

\* the square root of a rational that is a perfect square
ISqrt(k) == CHOOSE r \in 0..k : r * r = k

RSqrt(x) == <<ISqrt(x[1]), ISqrt(x[2])>>

---------------------------------------------------------------------------
(* 2-D arrays                                                              *)

Mat(r, c, F(_, _)) ==
    [nr |-> r, nc |-> c, m |-> [i \in 1..r |-> [j \in 1..c |-> F(i, j)]]]

FromRows(rows) ==
    [nr |-> Len(rows), nc |-> IF Len(rows) = 0 THEN 0 ELSE Len(rows[1]), m |-> rows]

Zeros(r, c) == Mat(r, c, LAMBDA i, j : Q(0))

Eye(n) == Mat(n, n, LAMBDA i, j : IF i = j THEN Q(1) ELSE Q(0))

Transpose(A) == Mat(A.nc, A.nr, LAMBDA i, j : A.m[j][i])

RECURSIVE DotFrom(_, _, _, _, _)
DotFrom(A, B, i, j, k) ==
    IF k > A.nc THEN Q(0)
    ELSE RAdd(RMul(A.m[i][k], B.m[k][j]), DotFrom(A, B, i, j, k + 1))

\* A @ B for conforming shapes (A.nc = B.nr)
MatMul(A, B) == Mat(A.nr, B.nc, LAMBDA i, j : DotFrom(A, B, i, j, 1))

MatAdd(A, B) == Mat(A.nr, A.nc, LAMBDA i, j : RAdd(A.m[i][j], B.m[i][j]))

MatScale(k, A) == Mat(A.nr, A.nc, LAMBDA i, j : RMul(k, A.m[i][j]))

\* A[:, lo:hi] with Python's clipping of the slice to the array
ColSlice(A, lo, hi) ==
    LET a == Min(lo, A.nc)
        b == Max(a, Min(hi, A.nc))
    IN  Mat(A.nr, b - a, LAMBDA i, j : A.m[i][a + j])

\* A[lo:hi, :] with Python's clipping (lo, hi >= 0)
RowSlice(A, lo, hi) ==
    LET a == Min(lo, A.nr)
        b == Max(a, Min(hi, A.nr))
    IN  Mat(b - a, A.nc, LAMBDA i, j : A.m[a + i][j])

\* np.concatenate([A, B], axis=1) for A.nr = B.nr
HCat(A, B) ==
    Mat(A.nr, A.nc + B.nc, LAMBDA i, j : IF j <= A.nc THEN A.m[i][j] ELSE B.m[i][j - A.nc])

\* np.concatenate([A, B], axis=0) for A.nc = B.nc
VCat(A, B) ==
    Mat(A.nr + B.nr, A.nc, LAMBDA i, j : IF i <= A.nr THEN A.m[i][j] ELSE B.m[i - A.nr][j])

\* np.kron(A, B)
Kron(A, B) ==
    Mat(A.nr * B.nr, A.nc * B.nc,
        LAMBDA i, j : RMul(A.m[((i - 1) \div B.nr) + 1][((j - 1) \div B.nc) + 1],
                           B.m[((i - 1) % B.nr) + 1][((j - 1) % B.nc) + 1]))

Ok(v) == [status |-> "ok", value |-> v]

Err(kind) == [status |-> kind]

---------------------------------------------------------------------------
(* MA_representation                                                       *)

\* A = [betas[:, n*i : n*(i+1)] for i in range(p)]
LagBlocks(b, n, p) == [i \in 1..p |-> ColSlice(b, n * (i - 1), n * i)]

\* the loop body without reversed(C): lag 1 paired with the oldest matrix
RECURSIVE SumProductsUnreversed(_, _, _, _)
SumProductsUnreversed(A, C, k, i) ==
    IF i > k THEN Zeros(C[1].nr, C[1].nc)
    ELSE MatAdd(MatMul(A[i], C[i]), SumProductsUnreversed(A, C, k, i + 1))

\* one pass of the loop body: C_m = sum of a @ c over zip(A[:m], reversed(C))
RECURSIVE SumProducts(_, _, _, _)
SumProducts(A, C, k, i) ==
    IF i > k THEN Zeros(C[1].nr, C[1].nc)
    ELSE MatAdd(MatMul(A[i], C[Len(C) + 1 - i]), SumProducts(A, C, k, i + 1))

RECURSIVE MALoop(_, _, _, _)
MALoop(A, C, m, hori) ==
    IF m >= hori THEN Ok(C)
    ELSE LET k == Min(Min(m, Len(A)), Len(C))
         IN  IF \E i \in 1..k : A[i].nc # C[Len(C) + 1 - i].nr
             THEN Err("ValueError")
             ELSE MALoop(A, Append(C, SumProducts(A, C, k, 1)), m + 1, hori)

MA_representation(b, p, hori) ==
    LET n == b.nr
    IN  MALoop(LagBlocks(b, n, p), <<Eye(n)>>, 1, hori)

---------------------------------------------------------------------------
(* irf_lineal_cholesky and irf_gamma                                       *)

\* A @ v for an n-by-n block A and a vector v of length A.nc
MatVec(A, v) == MatMul(A, Mat(Len(v), 1, LAMBDA i, j : v[i]))

ColOf(A, j) == [i \in 1..A.nr |-> A.m[i][j]]

VecAdd(u, v) == [i \in 1..Len(u) |-> RAdd(u[i], v[i])]

\* the entry numpy's lower-triangular factorisation reads for (i, j)
LowerAt(M, i, j) == M.m[Max(i, j)][Min(i, j)]

\* np.linalg.cholesky succeeds exactly on positive definite input; the
\* elimination below is the factorisation without its square roots
RECURSIVE CholeskyOK(_)
CholeskyOK(M) ==
    IF M.nr = 0 THEN TRUE
    ELSE /\ RGt(M.m[1][1], Q(0))
         /\ CholeskyOK(Mat(M.nr - 1, M.nr - 1,
                LAMBDA i, j : RSub(LowerAt(M, i + 1, j + 1),
                                   RDiv(RMul(LowerAt(M, i + 1, 1), LowerAt(M, j + 1, 1)),
                                        M.m[1][1]))))

\* np.linalg.cholesky(S)[:, 0]
CholeskyCol0(M) == [i \in 1..M.nr |-> RDiv(M.m[i][1], RSqrt(M.m[1][1]))]

\* a normalisation to a unit shock, without the factor koef
NormalizeShockUnit(v, koef) == [i \in 1..Len(v) |-> RDiv(v[i], v[1])]

\* irf_0 = koef * (np.array(irf_0) / np.array(irf_0)[0])
NormalizeShock(v, koef) == [i \in 1..Len(v) |-> RMul(koef, RDiv(v[i], v[1]))]

\* the row written by irf[0, :] = list(irf_0), or the error raised on the way
ImpactRow(s, n, normalize, koef) ==
    IF s.nc >= 2
    THEN IF s.nr # s.nc \/ ~CholeskyOK(s) THEN Err("LinAlgError")
         ELSE LET c0 == CholeskyCol0(s)
                  v  == IF normalize THEN NormalizeShock(c0, koef) ELSE c0
              IN  IF Len(v) = n THEN Ok(v) ELSE Err("ValueError")
    ELSE \* list(S): one length-1 array per row of S; only a single one broadcasts
         LET c0 == ColOf(s, 1)
             v  == IF normalize THEN NormalizeShock(c0, koef) ELSE c0
         IN  IF Len(v) = 1 THEN Ok([i \in 1..n |-> v[1]]) ELSE Err("ValueError")

\* sum_t without i_lags_list.reverse(): lag 1 paired with the oldest row of the window
RECURSIVE LagSumUnreversed(_, _, _, _)
LagSumUnreversed(B, irf, k, i) ==
    IF i > k THEN [r \in 1..B[1].nr |-> Q(0)]
    ELSE VecAdd(ColOf(MatVec(B[i], irf[Len(irf) - k + i]), 1),
                LagSumUnreversed(B, irf, k, i + 1))

\* sum_t: B = betas_lags[:t] paired with the last len(B) rows of irf, reversed
RECURSIVE LagSum(_, _, _, _)
LagSum(B, irf, k, i) ==
    IF i > k THEN [r \in 1..B[1].nr |-> Q(0)]
    ELSE VecAdd(ColOf(MatVec(B[i], irf[Len(irf) + 1 - i]), 1), LagSum(B, irf, k, i + 1))

RECURSIVE IrfLoop(_, _, _, _)
IrfLoop(B, irf, t, periods) ==
    IF t >= periods THEN Ok(irf)
    ELSE LET k == Min(t, Len(B))
         IN  IF k = 0 THEN Err("ValueError")   \* np.concatenate of an empty list
             ELSE IrfLoop(B, Append(irf, LagSum(B, irf, k, 1)), t + 1, periods)

\* irf.cumsum(axis=0)
RECURSIVE CumSum(_, _)
CumSum(rows, t) ==
    IF t = 1 THEN rows[1] ELSE VecAdd(CumSum(rows, t - 1), rows[t])

CumRows(rows) == [t \in 1..Len(rows) |-> CumSum(rows, t)]

irf_lineal_cholesky(b, s, periods, normalize, cumulative, koef) ==
    LET Lags      == b.nc \div b.nr
        num_endog == b.nr
        row0      == ImpactRow(s, num_endog, normalize, koef)
    IN  IF row0.status # "ok" THEN row0
        ELSE LET r == IrfLoop(LagBlocks(b, num_endog, Lags), <<row0.value>>, 1, periods)
             IN  IF r.status # "ok" THEN r
                 ELSE Ok(IF cumulative THEN CumRows(r.value) ELSE r.value)

\* MA_representation(betas, Lags, periods) @ Gamma_hat / Gamma_hat[wrt] * koef
irf_gamma(b, g, periods, koef, wrt) ==
    LET Lags == b.nc \div b.nr
        ma   == MA_representation(b, Lags, periods)
    IN  IF ma.status # "ok" THEN ma
        ELSE IF g.nr # b.nr THEN Err("ValueError")
        ELSE Ok([h \in 1..Len(ma.value) |->
                    MatScale(koef, MatScale(RRecip(g.m[wrt + 1][1]), MatMul(ma.value[h], g)))])

---------------------------------------------------------------------------
(* Gmatrices                                                               *)

\* np.linalg.matrix_power(A, h)
RECURSIVE MatPow(_, _)
MatPow(A, h) == IF h = 0 THEN Eye(A.nr) ELSE MatMul(MatPow(A, h - 1), A)

\* Alut: betas on top of zeros, then the sub-diagonal identity written in place
Companion(b) ==
    LET c == b.nc
        n == b.nr
    IN  Mat(c, c, LAMBDA i, j : IF i <= n THEN b.m[i][j]
                                ELSE IF j <= c - n /\ j = i - n THEN Q(1) ELSE Q(0))

\* AJp = np.concatenate(AJ, axis=1).T, AJ[h] = matrix_power(Alut, h) @ J.T
RECURSIVE StackAJ(_, _, _, _)
StackAJ(Alut, Jt, h, count) ==
    IF h >= count THEN Mat(0, Jt.nr, LAMBDA i, j : Q(0))
    ELSE VCat(Transpose(MatMul(MatPow(Alut, h), Jt)), StackAJ(Alut, Jt, h + 1, count))

\* Z of iteration i (0-based): zeros with l[:len(Z) - n**2 * i] written from row i*n**2
PaddedKron(AJp, Caux, n, hori, i) ==
    LET l    == Kron(RowSlice(AJp, 0, n * (hori - i)), Caux)
        rows == AJp.nr * n
        off  == i * n * n
    IN  Mat(rows, AJp.nc * n, LAMBDA r, c : IF r <= off THEN Q(0) ELSE l.m[r - off][c])

RECURSIVE SumPadded(_, _, _, _, _)
SumPadded(AJp, Cseq, n, hori, i) ==
    IF i >= hori - 1 THEN Zeros(AJp.nr * n, AJp.nc * n)
    ELSE MatAdd(PaddedKron(AJp, Cseq[i + 1], n, hori, i), SumPadded(AJp, Cseq, n, hori, i + 1))

\* G0 = Zsum.T.reshape(p*n**2, n**2, hori-1, order='F') with axes 0 and 1 swapped:
\* slice h (0-based) of Gaux holds rows n**2*h .. n**2*(h+1)-1 of Zsum
GauxSlice(Zsum, n, h) == RowSlice(Zsum, n * n * h, n * n * (h + 1))

\* np.cumsum(G, 2)
RECURSIVE CumSlices(_, _)
CumSlices(G, h) == IF h = 1 THEN G[1] ELSE MatAdd(CumSlices(G, h - 1), G[h])

Gmatrices(b, p, hori) ==
    LET n  == b.nr
        ma == MA_representation(b, p, hori)
    IN  IF ma.status # "ok" THEN ma
        ELSE IF b.nc < n THEN Err("ValueError")                 \* zeros of negative size
        ELSE IF hori - 1 >= 1 /\ b.nc # p * n THEN Err("ValueError")   \* Alut**h @ J.T
        ELSE IF hori - 1 < 1 THEN Err("ValueError")             \* concatenate of no arrays
        ELSE LET J    == HCat(Eye(n), Zeros(n, (p - 1) * n))
                 Alut == Companion(b)
                 AJp  == StackAJ(Alut, Transpose(J), 0, hori - 1)
                 Zsum == SumPadded(AJp, ma.value, n, hori, 0)
                 G    == [h \in 1..hori |-> IF h = 1 THEN Zeros(n * n, p * n * n)
                                            ELSE GauxSlice(Zsum, n, h - 2)]
             IN  Ok([G |-> G, Gcum |-> [h \in 1..hori |-> CumSlices(G, h)]])

---------------------------------------------------------------------------
(* Inputs of the MA / IRF / gradient specification                         *)

MaxLags == 2

MaxHori == 3

Half == Rat(1, 2)

\* n-by-n lag blocks, n = 1 and n = 2
Blocks1 == { FromRows(<< <<Half>> >>), FromRows(<< <<Q(-1)>> >>), FromRows(<< <<Q(2)>> >>) }

Blocks2 ==
    { FromRows(<< <<Half, Q(0)>>, <<Q(0), Rat(3, 10)>> >>),
      FromRows(<< <<Q(1), Q(1)>>, <<Q(0), Q(1)>> >>),
      FromRows(<< <<Q(0), Q(1)>>, <<Q(-1), Half>> >>) }

RECURSIVE HCatAll(_, _)
HCatAll(seq, i) == IF i = Len(seq) THEN seq[i] ELSE HCat(seq[i], HCatAll(seq, i + 1))

\* betas with k whole lag blocks, k = 1..MaxLags
WholeBetas(blocks) ==
    UNION { { HCatAll(sq, 1) : sq \in [1..k -> blocks] } : k \in 1..MaxLags }

\* betas whose column count is no multiple of its row count
RaggedBetas == { HCat(b, Mat(2, 1, LAMBDA i, j : Q(1))) : b \in WholeBetas(Blocks2) }

BetasInputs == WholeBetas(Blocks1) \cup WholeBetas(Blocks2) \cup RaggedBetas

\* covariance matrices of several scales, an indefinite one, and impact vectors
SInputs ==
    { Eye(2), MatScale(Q(4), Eye(2)), MatScale(Rat(1, 4), Eye(2)),
      FromRows(<< <<Q(4), Q(2)>>, <<Q(2), Q(2)>> >>),
      FromRows(<< <<Q(1), Q(2)>>, <<Q(2), Q(1)>> >>),
      FromRows(<< <<Q(2)>>, <<Q(1)>> >>),
      FromRows(<< <<Q(3)>> >>), FromRows(<< <<Q(0)>> >>) }

KoefInputs == { Rat(1, 10), Q(2) }

NoCall == [fn |-> "none"]

NoMatrix == Zeros(0, 0)

NoCI == [Gamma_hat |-> NoMatrix, WHat |-> NoMatrix, G |-> <<>>, C |-> <<>>]

NoHeap == <<>>

InitMA ==
    /\ betas \in BetasInputs
    /\ S \in SInputs
    /\ Vars = NoMatrix
    /\ ci = NoCI
    /\ ret = NoCall
    /\ heap = NoHeap

CallMA ==
    /\ ret = NoCall
    /\ \E p \in 1..MaxLags, hori \in 1..MaxHori :
         ret' = [fn |-> "MA_representation", arg |-> [p |-> p, hori |-> hori],
                 out |-> MA_representation(betas, p, hori)]
    /\ UNCHANGED <<betas, S, Vars, ci, heap>>

CallGmatrices ==
    /\ ret = NoCall
    /\ \E p \in 1..MaxLags, hori \in 1..MaxHori :
         ret' = [fn |-> "Gmatrices", arg |-> [p |-> p, hori |-> hori],
                 out |-> Gmatrices(betas, p, hori)]
    /\ UNCHANGED <<betas, S, Vars, ci, heap>>

CallIrfCholesky ==
    /\ ret = NoCall
    /\ \E periods \in 1..MaxHori, normalize \in BOOLEAN, cumulative \in BOOLEAN,
          koef \in KoefInputs :
         ret' = [fn |-> "irf_lineal_cholesky",
                 arg |-> [periods |-> periods, normalize |-> normalize,
                          cumulative |-> cumulative, koef |-> koef],
                 out |-> irf_lineal_cholesky(betas, S, periods, normalize, cumulative, koef)]
    /\ UNCHANGED <<betas, S, Vars, ci, heap>>

\* irf_gamma takes the impact vector: the caller's S when it is a column
CallIrfGamma ==
    /\ ret = NoCall
    /\ S.nc = 1
    /\ \E periods \in 1..MaxHori, koef \in KoefInputs, wrt \in 0..(S.nr - 1) :
         ret' = [fn |-> "irf_gamma",
                 arg |-> [periods |-> periods, koef |-> koef, wrt |-> wrt],
                 out |-> irf_gamma(betas, S, periods, koef, wrt)]
    /\ UNCHANGED <<betas, S, Vars, ci, heap>>

NextMA == CallMA \/ CallGmatrices \/ CallIrfCholesky \/ CallIrfGamma

SpecMA == InitMA /\ [][NextMA]_vars

---------------------------------------------------------------------------
(* Properties of the MA / IRF / gradient calls                             *)

\* the m-th n-column block of betas, read entry by entry
LagBlockOf(b, m) == Mat(b.nr, b.nr, LAMBDA i, j : b.m[i][(m - 1) * b.nr + j])

\* sum over m = 1..top of A_m * X[k-m] for a list X of matrices (0-based k)
RECURSIVE LagConvolution(_, _, _, _)
LagConvolution(b, X, k, top) ==
    IF top = 0 THEN Zeros(b.nr, X[1].nc)
    ELSE MatAdd(LagConvolution(b, X, k, top - 1), MatMul(LagBlockOf(b, top), X[k - top + 1]))

WellShaped(b, p) == b.nc = b.nr * p

\* C1: for betas with n*p columns, MA_representation returns exactly hori
\* matrices, the first the identity, each later one the sum of A_m * C[k-m]
\* over m = 1..min(k,p); for p = 1 the k-th is the k-th power of betas.
C1_MARecurrence ==
    (ret.fn = "MA_representation" /\ WellShaped(betas, ret.arg.p)) =>
        /\ ret.out.status = "ok"
        /\ Len(ret.out.value) = ret.arg.hori
        /\ ret.out.value[1] = Eye(betas.nr)
        /\ \A k \in 1..(ret.arg.hori - 1) :
              ret.out.value[k + 1] =
                  LagConvolution(betas, ret.out.value, k, Min(k, ret.arg.p))
        /\ ret.arg.p = 1 =>
              \A k \in 0..(ret.arg.hori - 1) : ret.out.value[k + 1] = MatPow(betas, k)

C1_Witness ==
    /\ ret.fn = "MA_representation"
    /\ ret.arg.p = 2 /\ ret.arg.hori = 3
    /\ betas.nr = 2 /\ betas.nc = 4
    /\ ret.out.status = "ok"
    /\ ret.out.value[3] # Zeros(2, 2)

\* C5: every call given a betas whose column count is not n*p ends in an
\* error (for the two IRF functions, which derive p from the shape: a column
\* count that is no multiple of n).
C5_MisshapedRejected ==
    ( \/ ret.fn \in {"MA_representation", "Gmatrices"} /\ ~WellShaped(betas, ret.arg.p)
      \/ ret.fn \in {"irf_lineal_cholesky", "irf_gamma"} /\ betas.nc % betas.nr # 0 )
    => ret.out.status # "ok"

\* the shock argument is one irf_lineal_cholesky accepts
ValidShock == ImpactRow(S, betas.nr, FALSE, Q(1)).status = "ok"

\* C6: for every horizon H >= 1 a call on consistent inputs succeeds and its
\* horizon axis has exactly H entries.
C6_HorizonLength ==
    /\ (ret.fn = "MA_representation" /\ WellShaped(betas, ret.arg.p)) =>
          ret.out.status = "ok" /\ Len(ret.out.value) = ret.arg.hori
    /\ (ret.fn = "irf_lineal_cholesky" /\ betas.nc % betas.nr = 0 /\ ValidShock) =>
          ret.out.status = "ok" /\ Len(ret.out.value) = ret.arg.periods
    /\ (ret.fn = "Gmatrices" /\ WellShaped(betas, ret.arg.p)) =>
          /\ ret.out.status = "ok"
          /\ Len(ret.out.value.G) = ret.arg.hori
          /\ Len(ret.out.value.Gcum) = ret.arg.hori

\* C7: with normalize=True the first entry of row 0 is koef, for every S,
\* koef, periods and cumulative, when the raw shock's first entry is not 0.
C7_NormalizedImpact ==
    ( /\ ret.fn = "irf_lineal_cholesky"
      /\ ret.arg.normalize
      /\ ret.out.status = "ok"
      /\ S.m[1][1] # Q(0) )
    => ret.out.value[1][1] = ret.arg.koef

C7_Witness ==
    /\ ret.fn = "irf_lineal_cholesky"
    /\ ret.arg.normalize /\ ret.arg.cumulative /\ ret.arg.periods = 3
    /\ S = MatScale(Q(4), Eye(2))
    /\ ret.out.status = "ok"
    /\ ret.out.value[1][1] = ret.arg.koef

\* the per-horizon responses behind a result: the rows themselves, or the
\* successive differences of a cumulated result
Levels(rows, cumulative) ==
    IF ~cumulative THEN rows
    ELSE [t \in 1..Len(rows) |->
            IF t = 1 THEN rows[1]
            ELSE [i \in 1..Len(rows[t]) |-> RSub(rows[t][i], rows[t - 1][i])]]

AsColumns(rows) == [t \in 1..Len(rows) |-> Mat(Len(rows[t]), 1, LAMBDA i, j : rows[t][i])]

\* C10: the responses satisfy row t = sum over m = 1..min(t,p) of
\* A_m * row[t-m], so row t is MA_representation(betas, p, periods)[t]
\* applied to row 0; a cumulated result is their running sum; and on the
\* documented example row 0 is (0.1, 0) and row 1 starts with 0.05.
C10_IrfIsMAOnShock ==
    (ret.fn = "irf_lineal_cholesky" /\ ret.out.status = "ok") =>
        LET p   == betas.nc \div betas.nr
            lev == AsColumns(Levels(ret.out.value, ret.arg.cumulative))
            ma  == MA_representation(betas, p, ret.arg.periods).value
        IN  /\ \A t \in 1..(ret.arg.periods - 1) :
                  lev[t + 1] = LagConvolution(betas, lev, t, Min(t, p))
            /\ \A t \in 0..(ret.arg.periods - 1) : lev[t + 1] = MatMul(ma[t + 1], lev[1])
            /\ ( /\ betas = FromRows(<< <<Half, Q(0)>>, <<Q(0), Rat(3, 10)>> >>)
                 /\ S = Eye(2)
                 /\ ret.arg = [periods |-> 3, normalize |-> TRUE, cumulative |-> FALSE,
                               koef |-> Rat(1, 10)] )
               => /\ ret.out.value[1] = <<Rat(1, 10), Q(0)>>
                  /\ ret.out.value[2][1] = Rat(1, 20)

C10_Witness ==
    /\ ret.fn = "irf_lineal_cholesky"
    /\ betas = FromRows(<< <<Half, Q(0)>>, <<Q(0), Rat(3, 10)>> >>)
    /\ S = Eye(2)
    /\ ret.arg = [periods |-> 3, normalize |-> TRUE, cumulative |-> FALSE, koef |-> Rat(1, 10)]
    /\ ret.out.status = "ok"
    /\ ret.out.value[2][1] = Rat(1, 20)

---------------------------------------------------------------------------
(* NW_hac_STATA                                                            *)

\* a second moment normalised by T - 1 instead of T
Sigma0Unbiased(V) == MatScale(Rat(1, V.nr - 1), MatMul(Transpose(V), V))

\* Sigma0 = (Vars.T @ Vars) / len(Vars)
Sigma0(V) == MatScale(Rat(1, V.nr), MatMul(Transpose(V), V))

\* V[0:-k]: Python reads -0 as 0, so k = 0 selects no row at all
HeadRows(V, k) == IF k = 0 THEN RowSlice(V, 0, 0) ELSE RowSlice(V, 0, Max(V.nr - k, 0))

\* sigma_cov_k = lambda V, k: (V[0:-k].T @ V[0:-k]) / len(V)
sigma_cov_k(V, k) ==
    MatScale(Rat(1, V.nr), MatMul(Transpose(HeadRows(V, k)), HeadRows(V, k)))

\* for n in range(lags): S += (1 - n / (lags + 1)) * sigma_cov_k(Vars, n) @ sigma_cov_k(Vars, n).T
RECURSIVE HacLoop(_, _, _, _)
HacLoop(V, acc, n, lags) ==
    IF n >= lags THEN acc
    ELSE HacLoop(V,
                 MatAdd(acc, MatScale(RSub(Q(1), Rat(n, lags + 1)),
                                      MatMul(sigma_cov_k(V, n), Transpose(sigma_cov_k(V, n))))),
                 n + 1, lags)

NW_hac_STATA(V, lags) == Ok(HacLoop(V, Sigma0(V), 0, lags))

\* the lag count of get_gamma_wald's call NW_hac_STATA(AuxHAC2, 0)
WaldHacLags == 0

MaxT == 3

MaxHacLags == 2

EntryInputs == { Q(-1), Q(0), Q(2) }

VarsInputs ==
    UNION { { FromRows(rows) : rows \in [1..T -> [1..d -> EntryInputs]] } :
            T \in 1..MaxT, d \in 1..2 }

InitHAC ==
    /\ Vars \in VarsInputs
    /\ betas = NoMatrix
    /\ S = NoMatrix
    /\ ci = NoCI
    /\ ret = NoCall
    /\ heap = NoHeap

CallNW ==
    /\ ret = NoCall
    /\ \E lags \in 0..MaxHacLags :
         ret' = [fn |-> "NW_hac_STATA", arg |-> [lags |-> lags],
                 out |-> NW_hac_STATA(Vars, lags)]
    /\ UNCHANGED <<betas, S, Vars, ci, heap>>

NextHAC == CallNW

SpecHAC == InitHAC /\ [][NextHAC]_vars

\* entry (i, j) of Vars'Vars / T, summed row by row
RECURSIVE MomentSum(_, _, _, _, _)
MomentSum(V, i, j, k, t) ==
    IF t > V.nr THEN Q(0)
    ELSE RAdd(MomentSum(V, i, j, k, t + 1),
              IF t - k >= 1 THEN RMul(V.m[t][i], V.m[t - k][j]) ELSE Q(0))

\* the lag-k cross-product of rows t against rows t-k, over T (k = 0: the second moment)
LaggedMoment(V, k) ==
    Mat(V.nc, V.nc, LAMBDA i, j : RMul(Rat(1, V.nr), MomentSum(V, i, j, k, 1)))

BartlettWeight(k, L) == RSub(Q(1), Rat(k, L + 1))

\* one term of the sum: the lag-k cross-product, alone or with its transpose
LagTerm(V, k, symmetric) ==
    IF symmetric THEN MatAdd(LaggedMoment(V, k), Transpose(LaggedMoment(V, k)))
    ELSE LaggedMoment(V, k)

\* second moment plus the Bartlett-weighted terms k = 1..top
RECURSIVE BartlettSum(_, _, _, _)
BartlettSum(V, L, top, symmetric) ==
    IF top = 0 THEN LaggedMoment(V, 0)
    ELSE MatAdd(BartlettSum(V, L, top - 1, symmetric),
                MatScale(BartlettWeight(top, L), LagTerm(V, top, symmetric)))

\* C4: for L >= 1 the result is the second moment plus, for k = 1..L, the
\* lag-k cross-product of rows k apart weighted by 1 - k/(L+1) (taken
\* one-sided, or together with its transpose as a symmetric estimator).
C4_BartlettLaggedTerms ==
    (ret.fn = "NW_hac_STATA" /\ ret.arg.lags >= 1) =>
        /\ ret.out.status = "ok"
        /\ \E symmetric \in BOOLEAN :
              ret.out.value = BartlettSum(Vars, ret.arg.lags, ret.arg.lags, symmetric)

\* C8: with lag count 0, the call get_gamma_wald makes, the result is the
\* plain second moment Vars'Vars/T and no error is raised.
C8_ZeroLagsIsSecondMoment ==
    (ret.fn = "NW_hac_STATA" /\ ret.arg.lags = WaldHacLags) =>
        /\ ret.out.status = "ok"
        /\ ret.out.value = LaggedMoment(Vars, 0)

C8_Witness ==
    /\ ret.fn = "NW_hac_STATA"
    /\ ret.arg.lags = WaldHacLags
    /\ Vars.nr = 3 /\ Vars.nc = 2
    /\ ret.out.status = "ok"
    /\ ret.out.value.m[1][2] # Q(0)

---------------------------------------------------------------------------
(* CI_dmethod                                                              *)

Num(x) == [kind |-> "num", val |-> x]

\* (-b + sign * Deltahat**.5) / (2 * ahat), kept as the expression: the root
\* of a rational need not be rational
Root(b, sign, D, a) == [kind |-> "root", minusb |-> RNeg(b), sign |-> sign, disc |-> D,
                        den |-> RMul(Q(2), a)]

\* the if / elif / elif / else chain on the signs of ahat and Deltahat
CaseOf(a, D) ==
    IF RGt(a, Q(0)) /\ RGt(D, Q(0)) THEN 1
    ELSE IF RLt(a, Q(0)) /\ RGt(D, Q(0)) THEN 2
    ELSE IF RGt(a, Q(0)) /\ RLt(D, Q(0)) THEN 3
    ELSE 4

\* a chain whose empty-set branch leaves the zeros the arrays were created with
CellBoundsZeroed(cd, a, b, D) ==
    IF cd = 1 THEN [l |-> Root(b, -1, D, a), u |-> Root(b, 1, D, a)]
    ELSE IF cd = 2 THEN [l |-> Root(b, 1, D, a), u |-> Root(b, -1, D, a)]
    ELSE IF cd = 3 THEN [l |-> Num(Q(0)), u |-> Num(Q(0))]
    ELSE [l |-> Num(NegInf), u |-> Num(PosInf)]

\* MSWlbound[j,ih] and MSWubound[j,ih] as each branch assigns them
CellBounds(cd, a, b, D) ==
    IF cd = 1 THEN [l |-> Root(b, -1, D, a), u |-> Root(b, 1, D, a)]
    ELSE IF cd = 2 THEN [l |-> Root(b, 1, D, a), u |-> Root(b, -1, D, a)]
    ELSE IF cd = 3 THEN [l |-> Num(NaN), u |-> Num(NaN)]
    ELSE [l |-> Num(NegInf), u |-> Num(PosInf)]

\* the 1-by-1 product as a number
Scalar(M) == M.m[1][1]

BlockOf(M, r0, r1, c0, c1) == ColSlice(RowSlice(M, r0, r1), c0, c1)

\* the body of the double loop for variable j and horizon index ih (both 1-based)
CICell(g, W, G, T, C, critval, scale, nvar, j, ih) ==
    LET n   == g.nr
        K   == W.nr - n
        W1  == BlockOf(W, 0, K, 0, K)
        W2  == BlockOf(W, K, K + n, K, K + n)
        W12 == Transpose(BlockOf(W, K, K + n, 0, K))
        ej  == Mat(1, n, LAMBDA r, c : IF c = j THEN Q(1) ELSE Q(0))
        eC  == MatMul(ej, C[ih])
        x   == Scalar(MatMul(eC, g))
        kg  == MatMul(Kron(Transpose(g), ej), G[ih])
        w12 == ColSlice(W12, nvar - 1, nvar)
        w2  == ColSlice(W2, nvar - 1, nvar)
        s2  == RMul(scale, scale)
        a   == RSub(RMul(T, RMul(g.m[nvar][1], g.m[nvar][1])),
                    RMul(critval, W2.m[nvar][nvar]))
        b   == RAdd(RAdd(RMul(RMul(RMul(Q(-2), T), scale), RMul(x, g.m[nvar][1])),
                         RMul(RMul(RMul(Q(2), critval), scale), Scalar(MatMul(kg, w12)))),
                    RMul(RMul(RMul(Q(2), critval), scale), Scalar(MatMul(eC, w2))))
        c   == RSub(RSub(RSub(RMul(T, RMul(s2, RMul(x, x))),
                              RMul(RMul(critval, s2),
                                   Scalar(MatMul(MatMul(kg, W1), Transpose(kg))))),
                         RMul(RMul(RMul(Q(2), critval), s2),
                              Scalar(MatMul(MatMul(kg, W12), Transpose(eC))))),
                    RMul(RMul(critval, s2),
                         Scalar(MatMul(MatMul(eC, W2), Transpose(eC)))))
        D   == RSub(RMul(b, b), RMul(Q(4), RMul(a, c)))
        cd  == CaseOf(a, D)
        bd  == CellBounds(cd, a, b, D)
    IN  [ahat |-> a, bhat |-> b, chat |-> c, Deltahat |-> D, casedummy |-> cd,
         l |-> bd.l, u |-> bd.u]

\* the whole call: every cell, then the normalised cell's bounds set to scale.
\* The seven returned n-by-hori arrays are kept as one grid of records:
\* value[j][ih].casedummy is the code's casedummy[j-1, ih-1], and so on.
CI_dmethod(g, W, G, T, C, hori, critval, scale, nvar) ==
    IF hori > Len(C) \/ hori > Len(G) THEN Err("IndexError")
    ELSE Ok([j \in 1..g.nr |-> [ih \in 1..hori |->
                IF j = nvar /\ ih = 1
                THEN [CICell(g, W, G, T, C, critval, scale, nvar, j, ih)
                          EXCEPT !.l = Num(scale), !.u = Num(scale)]
                ELSE CICell(g, W, G, T, C, critval, scale, nvar, j, ih)]])

---------------------------------------------------------------------------
(* Inputs of the confidence-set specification                              *)

MaxCIHori == 2

\* impact vectors for n = 1 and n = 2
GammaInputs(n) ==
    IF n = 1 THEN { FromRows(<< <<Q(k)>> >>) : k \in {-1, 0, 2} }
    ELSE { FromRows(<< <<Q(1)>>, <<Q(0)>> >>), FromRows(<< <<Q(2)>>, <<Q(1)>> >>),
           FromRows(<< <<Q(-1)>>, <<Q(2)>> >>) }

\* symmetric block matrices [[W1, W12], [W12', W2]] with W1 of size n*n, W2 of size n
WBlock(n, w1, w12, w2) ==
    LET K == n * n
    IN  Mat(K + n, K + n,
            LAMBDA i, j :
                IF i <= K /\ j <= K THEN (IF i = j THEN Q(w1) ELSE Q(0))
                ELSE IF i > K /\ j > K THEN (IF i = j THEN Q(w2) ELSE Q(0))
                ELSE IF (Max(i, j) - K) = ((Min(i, j) - 1) % n) + 1 THEN Q(w12) ELSE Q(0))

WHatInputs(n) == { WBlock(n, w1, w12, w2) : w1 \in {0, 4}, w12 \in {0, 1}, w2 \in {0, 5} }

\* one-lag coefficient matrices behind the C and G handed to CI_dmethod
CIBetas ==
    { FromRows(<< <<Half>> >>), FromRows(<< <<Q(-1)>> >>),
      FromRows(<< <<Q(1), Q(1)>>, <<Q(0), Q(1)>> >>),
      FromRows(<< <<Q(0), Q(1)>>, <<Q(-1), Half>> >>) }

\* the gradient array handed to CI_dmethod: G or Gcum of Gmatrices, or an
\* array of the caller's own whose first slice is not zero
GradientInputs(b) ==
    LET gm == Gmatrices(b, 1, MaxCIHori).value
    IN  { gm.G, gm.Gcum,
          [h \in 1..MaxCIHori |-> IF h = 1 THEN Eye(b.nr * b.nr) ELSE gm.G[h]] }

CIInputs ==
    UNION { { [Gamma_hat |-> g, WHat |-> W, G |-> G,
               C |-> MA_representation(b, 1, MaxCIHori).value] :
              g \in GammaInputs(b.nr), W \in WHatInputs(b.nr), G \in GradientInputs(b) } :
            b \in CIBetas }

\* T (observations), critval (the squared normal quantile of the confidence) and scale
TInputs == { Q(1), Q(4) }

CritvalInputs == { Q(1), Q(4) }

ScaleInputs == { Q(1), Q(2) }

InitCI ==
    /\ ci \in CIInputs
    /\ betas = NoMatrix
    /\ S = NoMatrix
    /\ Vars = NoMatrix
    /\ ret = NoCall
    /\ heap = NoHeap

CallCIdmethod ==
    /\ ret = NoCall
    /\ \E T \in TInputs, critval \in CritvalInputs, scale \in ScaleInputs,
          nvar \in 1..ci.Gamma_hat.nr, hori \in 1..MaxCIHori :
         ret' = [fn |-> "CI_dmethod",
                 arg |-> [T |-> T, critval |-> critval, scale |-> scale, nvar |-> nvar,
                          hori |-> hori],
                 out |-> CI_dmethod(ci.Gamma_hat, ci.WHat, ci.G, T, ci.C, hori, critval,
                                    scale, nvar)]
    /\ UNCHANGED <<betas, S, Vars, ci, heap>>

NextCI == CallCIdmethod

SpecCI == InitCI /\ [][NextCI]_vars

Cells == { <<j, ih>> : j \in 1..ci.Gamma_hat.nr, ih \in 1..ret.arg.hori }

\* C2: every cell's case is the one the four-row table names for the signs
\* of ahat and Deltahat, each case if and only if its row's signs.
C2_CaseTable ==
    (ret.fn = "CI_dmethod" /\ ret.out.status = "ok") =>
        \A x \in Cells :
            LET a  == ret.out.value[x[1]][x[2]].ahat
                D  == ret.out.value[x[1]][x[2]].Deltahat
                cd == ret.out.value[x[1]][x[2]].casedummy
            IN  /\ cd = 1 <=> (RGt(a, Q(0)) /\ RGt(D, Q(0)))
                /\ cd = 2 <=> (RLt(a, Q(0)) /\ RGt(D, Q(0)))
                /\ cd = 3 <=> (RGt(a, Q(0)) /\ RLt(D, Q(0)))
                /\ cd = 4 <=> (RLt(a, Q(0)) /\ RLt(D, Q(0)))

IsNum(b, v) == b.kind = "num" /\ b.val = v

\* the case of a cell shows in its bounds: case 3 as nan, case 4 as -inf, +inf
CaseShowsInBounds(x) ==
    LET cd == ret.out.value[x[1]][x[2]].casedummy
        l  == ret.out.value[x[1]][x[2]].l
        u  == ret.out.value[x[1]][x[2]].u
    IN  /\ cd \in 1..4
        /\ cd = 3 => (IsNum(l, NaN) /\ IsNum(u, NaN))
        /\ cd = 4 => (IsNum(l, NegInf) /\ IsNum(u, PosInf))

\* C3 as stated: in every cell the case is one of 1..4, case 3 has nan
\* bounds and case 4 has the bounds -inf and +inf.
C3_EveryCellShowsCase ==
    (ret.fn = "CI_dmethod" /\ ret.out.status = "ok") => \A x \in Cells : CaseShowsInBounds(x)

\* C3 amended: the same in every cell but the normalised one (variable nvar,
\* horizon 0), whose two bounds are the scale whatever its case.
C3_CellsShowCaseButNormalised ==
    (ret.fn = "CI_dmethod" /\ ret.out.status = "ok") =>
        /\ \A x \in Cells : x # <<ret.arg.nvar, 1>> => CaseShowsInBounds(x)
        /\ ret.out.value[ret.arg.nvar][1].casedummy \in 1..4
        /\ IsNum(ret.out.value[ret.arg.nvar][1].l, ret.arg.scale)
        /\ IsNum(ret.out.value[ret.arg.nvar][1].u, ret.arg.scale)

\* a call with an empty-set cell away from the normalised cell, whose own
\* case is the unbounded one while its bounds are the scale
C3_Witness ==
    /\ ret.fn = "CI_dmethod" /\ ret.out.status = "ok"
    /\ \E x \in Cells : /\ x # <<ret.arg.nvar, 1>>
                        /\ ret.out.value[x[1]][x[2]].casedummy = 3
                        /\ IsNum(ret.out.value[x[1]][x[2]].l, NaN)
    /\ ret.out.value[ret.arg.nvar][1].casedummy = 4
    /\ IsNum(ret.out.value[ret.arg.nvar][1].l, ret.arg.scale)

---------------------------------------------------------------------------
(* Memory effects of the nine functions                                    *)
(*                                                                         *)
(* A body is the list of the function's statements that bind or write an   *)
(* array (or a list of arrays):                                            *)
(*   New     binds a name to a freshly allocated array computed from the   *)
(*           arrays named in src (arithmetic, @, np.zeros, np.concatenate, *)
(*           np.array, np.kron, cumsum);                                   *)
(*   View    binds a name to memory other names are bound to (a basic      *)
(*           slice, .T, reshape, moveaxis, plain assignment, a list that   *)
(*           holds such arrays);                                           *)
(*   Write   changes in place what a name is bound to (x[...] = v,         *)
(*           x += v, append, reverse);                                     *)
(*   Loop    runs a block once per iteration of a for loop;                *)
(*   Invoke  calls another function of the module.                         *)
(* when = [c, v] makes a statement run only if flag c has value v.         *)

Always == [c |-> "always", v |-> TRUE]

New(dst, src) == [op |-> "new", dst |-> dst, src |-> src, when |-> Always]

NewIf(dst, src, c, v) == [op |-> "new", dst |-> dst, src |-> src, when |-> [c |-> c, v |-> v]]

View(dst, src) == [op |-> "view", dst |-> dst, src |-> src, when |-> Always]

ViewIf(dst, src, c, v) == [op |-> "view", dst |-> dst, src |-> src, when |-> [c |-> c, v |-> v]]

Write(dst, src) == [op |-> "write", dst |-> dst, src |-> src, when |-> Always]

Loop(block) == [op |-> "loop", block |-> block, when |-> Always]

\* dst = fn(args...); runloops is FALSE when the call passes a literal 0 as
\* the callee's loop count
Invoke(dst, fn, args, runloops) ==
    [op |-> "invoke", dst |-> dst, fn |-> fn, args |-> args, runloops |-> runloops,
     when |-> Always]

Functions ==
    { "ols", "NW_hac_STATA", "get_gamma_wald", "irf_lineal_cholesky", "irf_gamma",
      "MA_representation", "Gmatrices", "CI_dmethod", "CI_dmethod_standard" }

\* the array parameters of each function, in order
Params ==
    [ ols                 |-> <<"Y", "X">>,
      NW_hac_STATA        |-> <<"Vars">>,
      get_gamma_wald      |-> <<"X", "Z", "eta">>,
      irf_lineal_cholesky |-> <<"betas", "S">>,
      irf_gamma           |-> <<"betas", "Gamma_hat">>,
      MA_representation   |-> <<"betas">>,
      Gmatrices           |-> <<"betas">>,
      CI_dmethod          |-> <<"Gamma_hat", "WHat", "G", "C">>,
      CI_dmethod_standard |-> <<"Gamma_hat", "WHat", "G", "C">> ]

\* the names whose values each function returns
Returns ==
    [ ols                 |-> {"betas", "errors", "Y_hat"},
      NW_hac_STATA        |-> {"S"},
      get_gamma_wald      |-> {"WHat", "wald", "Gamma_hat"},
      irf_lineal_cholesky |-> {"rv"},
      irf_gamma           |-> {"rv"},
      MA_representation   |-> {"C"},
      Gmatrices           |-> {"G", "Gcum"},
      CI_dmethod          |-> {"MSWlbound", "MSWubound", "ahat", "bhat", "chat", "Deltahat",
                               "casedummy"},
      CI_dmethod_standard |-> {"lambdahatcum", "DmethodVarcum", "Dmethodlboundcum",
                               "Dmethoduboundcum", "std"} ]

BodyOls ==
    << New("betas", {"X", "Y"}),
       New("Y_hat", {"X", "betas"}),
       New("errors", {"Y", "Y_hat"}) >>

\* S = Sigma0 is the same array; S += ... adds into it
BodyNW ==
    << New("Sigma0", {"Vars"}),
       View("S", {"Sigma0"}),
       Loop(<< Write("S", {"S", "Vars"}) >>) >>

BodyWald ==
    << New("Gamma_hat", {"Z", "eta"}),
       New("matagg", {"X", "eta", "Z"}),
       New("auxeta", {"eta", "matagg"}),
       New("val", {"eta", "matagg"}),
       New("val_mean", {"val"}),
       New("val_minus_mean", {"val", "val_mean"}),
       Loop(<< Write("auxeta", {"val_minus_mean"}) >>),
       View("AuxHAC2", {"auxeta"}),
       New("AuxHAC2", {"AuxHAC2"}),
       Invoke("AuxHAC3", "NW_hac_STATA", <<"AuxHAC2">>, FALSE),
       New("I", {"eta"}),
       New("V", {"I"}),
       Loop(<< New("V", {"V", "I"}) >>),
       New("Q1", {"X"}),
       New("Q2", {"Z", "X"}),
       New("Shat", {"Q1", "eta", "V"}),
       New("A", {"Q1"}),
       Write("Shat", {"A"}),
       Write("Shat", {"V"}),
       New("B", {"Q2", "Q1"}),
       Write("Shat", {"B"}),
       New("C", {"B"}),
       Write("Shat", {"C"}),
       New("WHataux", {"Shat", "AuxHAC3"}),
       New("WHat", {"Q1", "C"}),
       Write("WHat", {"WHataux", "C"}),
       Write("WHat", {"WHataux", "C"}),
       Write("WHat", {"WHataux", "C"}),
       Write("WHat", {"WHat", "C"}),
       New("wald", {"eta", "Gamma_hat", "WHat"}) >>

\* betas_lags holds slices of betas; list(S) holds the rows of S; i_lags
\* and the reshaped rows in i_lags_list are slices of irf
BodyIrfCholesky ==
    << View("betas_lags", {"betas"}),
       New("irf", {"betas"}),
       NewIf("irf_0", {"S"}, "use_chol", TRUE),
       ViewIf("irf_0", {"S"}, "use_chol", FALSE),
       NewIf("irf_0", {"irf_0"}, "normalize", TRUE),
       Write("irf", {"irf_0"}),
       Loop(<< View("B", {"betas_lags"}),
               View("i_lags", {"irf"}),
               View("i_lags", {"i_lags"}),
               View("i_lags_list", {"i_lags"}),
               Write("i_lags_list", {"i_lags_list"}),
               New("agregg", {"B", "i_lags_list"}),
               New("sum_t", {"agregg"}),
               Write("irf", {"sum_t"}) >>),
       NewIf("irf_cum", {"irf"}, "cumulative", TRUE),
       ViewIf("rv", {"irf_cum"}, "cumulative", TRUE),
       ViewIf("rv", {"irf"}, "cumulative", FALSE) >>

BodyIrfGamma ==
    << Invoke("ma", "MA_representation", <<"betas">>, TRUE),
       New("rv", {"ma", "Gamma_hat"}) >>

\* A holds slices of betas; C.append(C_m) changes the list C, which then
\* holds C_m
BodyMA ==
    << View("A", {"betas"}),
       New("C", {"betas"}),
       Loop(<< New("C_m", {"A", "C"}),
               Write("C", {"C_m"}),
               View("C", {"C", "C_m"}) >>) >>

\* Gmatrices with Alut bound to betas itself instead of to the copy
\* np.concatenate makes
BodyGmatricesAliased ==
    << Invoke("C", "MA_representation", <<"betas">>, TRUE),
       New("C_aux", {"betas"}),
       View("C_aux", {"C_aux", "C"}),
       New("J", {"betas"}),
       View("Alut", {"betas"}),
       Write("Alut", {"Alut"}),
       New("AJ", {"Alut", "J"}),
       New("AJp", {"AJ"}),
       New("AJaux", {}),
       Loop(<< New("l", {"AJp", "C_aux"}),
               New("Z", {"AJp"}),
               Write("Z", {"l"}),
               Write("AJaux", {"Z"}),
               View("AJaux", {"AJaux", "Z"}) >>),
       New("G0", {"AJaux", "betas"}),
       View("Gaux", {"G0"}),
       New("G", {"Gaux"}),
       Loop(<< Write("G", {"Gaux"}) >>),
       New("Gcum", {"G"}) >>

\* C_aux holds a fresh identity and the matrices of C; Alut is a copy of
\* betas (np.concatenate), written in place; Gaux is G0 with its axes moved
BodyGmatrices ==
    << Invoke("C", "MA_representation", <<"betas">>, TRUE),
       New("C_aux", {"betas"}),
       View("C_aux", {"C_aux", "C"}),
       New("J", {"betas"}),
       New("Alut", {"betas"}),
       Write("Alut", {"Alut"}),
       New("AJ", {"Alut", "J"}),
       New("AJp", {"AJ"}),
       New("AJaux", {}),
       Loop(<< New("l", {"AJp", "C_aux"}),
               New("Z", {"AJp"}),
               Write("Z", {"l"}),
               Write("AJaux", {"Z"}),
               View("AJaux", {"AJaux", "Z"}) >>),
       New("G0", {"AJaux", "betas"}),
       View("Gaux", {"G0"}),
       New("G", {"Gaux"}),
       Loop(<< Write("G", {"Gaux"}) >>),
       New("Gcum", {"G"}) >>

\* W1, W2 and W12 are slices of WHat
BodyCIdmethod ==
    << View("W1", {"WHat"}),
       View("W2", {"WHat"}),
       View("W12", {"WHat"}),
       New("e", {"Gamma_hat"}),
       New("ahat", {"Gamma_hat"}),
       New("bhat", {"Gamma_hat"}),
       New("chat", {"Gamma_hat"}),
       New("Deltahat", {"Gamma_hat"}),
       New("MSWlbound", {"Gamma_hat"}),
       New("MSWubound", {"Gamma_hat"}),
       New("casedummy", {"Gamma_hat"}),
       Loop(<< Write("ahat", {"Gamma_hat", "W2"}),
               Write("bhat", {"e", "C", "Gamma_hat", "G", "W12", "W2"}),
               Write("chat", {"e", "C", "Gamma_hat", "G", "W1", "W12", "W2"}),
               Write("Deltahat", {"ahat", "bhat", "chat"}),
               Write("casedummy", {"ahat", "Deltahat"}),
               Write("MSWlbound", {"ahat", "bhat", "Deltahat"}),
               Write("MSWubound", {"ahat", "bhat", "Deltahat"}) >>),
       Write("MSWlbound", {}),
       Write("MSWubound", {}) >>

BodyCIstandard ==
    << New("e", {"Gamma_hat"}),
       New("lambdahatcum", {"Gamma_hat"}),
       New("DmethodVarcum", {"Gamma_hat"}),
       New("Dmethodlboundcum", {"Gamma_hat"}),
       New("Dmethoduboundcum", {"Gamma_hat"}),
       Loop(<< Write("lambdahatcum", {"e", "C", "Gamma_hat"}),
               New("d1", {"Gamma_hat", "e", "G"}),
               New("d2", {"e", "C", "lambdahatcum"}),
               New("d", {"d1", "d2"}),
               Write("DmethodVarcum", {"d", "WHat"}),
               Write("Dmethodlboundcum", {"lambdahatcum", "DmethodVarcum", "Gamma_hat"}),
               Write("Dmethoduboundcum", {"lambdahatcum", "DmethodVarcum", "Gamma_hat"}) >>),
       New("std", {"DmethodVarcum", "Gamma_hat"}) >>

Body ==
    [ ols                 |-> BodyOls,
      NW_hac_STATA        |-> BodyNW,
      get_gamma_wald      |-> BodyWald,
      irf_lineal_cholesky |-> BodyIrfCholesky,
      irf_gamma           |-> BodyIrfGamma,
      MA_representation   |-> BodyMA,
      Gmatrices           |-> BodyGmatrices,
      CI_dmethod          |-> BodyCIdmethod,
      CI_dmethod_standard |-> BodyCIstandard ]

---------------------------------------------------------------------------
(* Running a body.  A buffer is a piece of memory: <<"caller", s>> is the  *)
(* array the caller holds under the name s, <<"module", g>> the state      *)
(* behind the module-level name g, <<fn, x>> the memory the function fn    *)
(* allocated for its name x.  A frame state st holds                       *)
(*   env      the pairs <<name, buffer>>: the buffers a name may reach,    *)
(*   dep      the pairs <<buffer, owned>>: the caller's and the module's   *)
(*            buffers the content of a buffer was computed from,           *)
(*   written  the buffers written in place so far.                         *)

\* the names under which a caller holds the arrays it passes
Slots == {"Y", "X", "Z", "eta", "Vars", "betas", "S", "Gamma_hat", "WHat", "G", "C"}

\* module-level names with mutable state behind them
Globals == {"plt", "rcParams"}

Owned == { <<"caller", s>> : s \in Slots } \cup { <<"module", g>> : g \in Globals }

Reach(names, st) == { q[2] : q \in { e \in st.env : e[1] \in names } }

DepsOf(names, st) ==
    LET bs == Reach(names, st) IN { q[2] : q \in { e \in st.dep : e[1] \in bs } }

\* the module-level names are in scope of every function
GlobalEnv == { <<g, <<"module", g>>>> : g \in Globals }

Applies(stmt, conds) ==
    \/ stmt.when.c = "always"
    \/ (stmt.when.c \in conds.flags) = stmt.when.v

\* the callee's parameters bound to what the caller's argument names reach
BindArgs(fn, args, st) ==
    GlobalEnv \cup
    UNION { { <<Params[fn][i], b>> : b \in Reach({args[i]}, st) } : i \in 1..Len(args) }

\* the one element of a singleton set: Only({e}) is e, computed once
Only(set) == CHOOSE x \in set : TRUE

RECURSIVE Step(_, _, _, _)
RECURSIVE Repeat(_, _, _, _, _)
RECURSIVE ExecSeq(_, _, _, _, _)

Step(fn, stmt, st, conds) ==
    IF ~Applies(stmt, conds) THEN st
    ELSE CASE stmt.op = "new" ->
                LET b == <<fn, stmt.dst>>
                    d == DepsOf(stmt.src, st)
                IN  [ env     |-> { e \in st.env : e[1] # stmt.dst } \cup {<<stmt.dst, b>>},
                      dep     |-> { e \in st.dep : e[1] # b } \cup { <<b, o>> : o \in d },
                      written |-> st.written ]
           [] stmt.op = "view" ->
                LET bs == Reach(stmt.src, st)
                IN  [ env     |-> { e \in st.env : e[1] # stmt.dst }
                                      \cup { <<stmt.dst, b>> : b \in bs },
                      dep     |-> st.dep,
                      written |-> st.written ]
           [] stmt.op = "write" ->
                LET bs == Reach({stmt.dst}, st)
                    d  == DepsOf(stmt.src, st)
                IN  [ env     |-> st.env,
                      dep     |-> st.dep \cup (bs \X d),
                      written |-> st.written \cup bs ]
           [] stmt.op = "loop" ->
                Repeat(fn, stmt.block, conds.iters, st, conds)
           [] stmt.op = "invoke" ->
                LET inner == [ iters |-> IF stmt.runloops THEN conds.iters ELSE 0,
                               flags |-> conds.flags ]
                    st0   == [ env |-> BindArgs(stmt.fn, stmt.args, st),
                               dep |-> st.dep, written |-> st.written ]
                IN  Only({ [ env     |-> { e \in st.env : e[1] # stmt.dst }
                                           \cup { <<stmt.dst, b>> : b \in Reach(Returns[stmt.fn], r) },
                             dep     |-> r.dep,
                             written |-> r.written ] :
                           r \in { ExecSeq(stmt.fn, Body[stmt.fn], 1, st0, inner) } })

Repeat(fn, block, k, st, conds) ==
    IF k = 0 THEN st
    ELSE Only({ Repeat(fn, block, k - 1, x, conds) : x \in { ExecSeq(fn, block, 1, st, conds) } })

ExecSeq(fn, stmts, i, st, conds) ==
    IF i > Len(stmts) THEN st
    ELSE Only({ ExecSeq(fn, stmts, i + 1, x, conds) : x \in { Step(fn, stmts[i], st, conds) } })

\* what a call of fn from the caller does: the buffers it wrote in place and
\* the buffers of the caller and the module its result was computed from
Run(fn, conds) ==
    LET st0 == [ env     |-> GlobalEnv \cup
                                 { <<Params[fn][i], <<"caller", Params[fn][i]>>>> :
                                       i \in 1..Len(Params[fn]) },
                 dep     |-> { <<b, b>> : b \in Owned },
                 written |-> {} ]
    IN  Only({ [ written |-> r.written,
                 result  |-> Reach(Returns[fn], r),
                 reads   |-> DepsOf(Returns[fn], r) ] :
               r \in { ExecSeq(fn, Body[fn], 1, st0, conds) } })

---------------------------------------------------------------------------
(* SpecFrame: any sequence of calls, with the caller (and the rest of the  *)
(* program) changing its own arrays and the module-level state in between. *)
(* heap[b] is the content of buffer b, as the number of times its owner    *)
(* has replaced it, and the functions that have written into it in place.  *)

MaxStores == 1

MaxIters == 2

RECURSIVE Stores(_, _)
Stores(h, bs) ==
    IF bs = {} THEN 0
    ELSE LET b == CHOOSE x \in bs : TRUE IN h[b].version + Stores(h, bs \ {b})

\* how often the loops of fn can run: ols has none, Gmatrices and
\* CI_dmethod raise before returning when theirs do not run
IterInputs(fn) ==
    CASE fn = "ols" -> {0}
      [] fn \in {"Gmatrices", "CI_dmethod"} -> 1..MaxIters
      [] OTHER -> 0..MaxIters

\* the boolean options and branches of fn
FlagInputs(fn) ==
    IF fn = "irf_lineal_cholesky" THEN SUBSET {"use_chol", "normalize", "cumulative"} ELSE {{}}

InitFrame ==
    /\ heap = [ b \in Owned |-> [version |-> 0, writers |-> {}] ]
    /\ ret = NoCall
    /\ betas = NoMatrix
    /\ S = NoMatrix
    /\ Vars = NoMatrix
    /\ ci = NoCI

\* the owner of a buffer replaces its content
Store ==
    /\ Stores(heap, Owned) < MaxStores
    /\ \E b \in Owned : heap' = [heap EXCEPT ![b].version = @ + 1]
    /\ UNCHANGED <<betas, S, Vars, ci, ret>>

\* the caller calls one of the nine functions on its arrays
CallFunction ==
    /\ \E fn \in Functions : \E k \in IterInputs(fn) : \E flags \in FlagInputs(fn) :
         \E r \in { Run(fn, [iters |-> k, flags |-> flags]) } :
             /\ heap' = [ b \in Owned |->
                            IF b \in r.written
                            THEN [heap[b] EXCEPT !.writers = @ \cup {fn}]
                            ELSE heap[b] ]
             /\ ret' = [ fn  |-> fn,
                         arg |-> [ at    |-> [ x \in { Params[fn][i] : i \in 1..Len(Params[fn]) } |->
                                                 heap[<<"caller", x>>].version ],
                                   iters |-> k,
                                   flags |-> flags ],
                         out |-> [ reads   |-> [ b \in r.reads |-> heap[b].version ],
                                   written |-> r.written ] ]
    /\ UNCHANGED <<betas, S, Vars, ci>>

NextFrame == Store \/ CallFunction

SpecFrame == InitFrame /\ [][NextFrame]_vars

\* the caller's buffers of the arguments of the last call
ArgBuffers == { <<"caller", Params[ret.fn][i]>> : i \in 1..Len(Params[ret.fn]) }

\* no function has written into a buffer of the caller or of the module
NothingOwnedWritten == \A b \in Owned : heap[b].writers = {}

\* the result of the last call was computed from its arguments only
ResultFromArguments == ret # NoCall => DOMAIN ret.out.reads \subseteq ArgBuffers

\* a call with the function and arguments of the call before it has its result
SameCallSameResult ==
    (ret # NoCall /\ ret' # NoCall /\ ret'.fn = ret.fn /\ ret'.arg = ret.arg)
        => ret'.out = ret.out

\* C9: after any sequence of calls every array passed as an argument is
\* unchanged (only memory allocated inside a call is written), and a result
\* depends on the arguments of its call only: on nothing an earlier call or
\* anyone else left behind, so the same arguments give the same result.
C9_ArgumentsUntouchedResultsRepeat ==
    /\ [](NothingOwnedWritten /\ ResultFromArguments)
    /\ [][SameCallSameResult]_vars

\* Gmatrices has run its loops, has written in place into its own Alut, Z,
\* AJaux and G, and the betas the caller passed (and had replaced before)
\* still have the content the call was given
C9_Witness ==
    /\ ret.fn = "Gmatrices"
    /\ ret.arg.iters = MaxIters
    /\ {<<"Gmatrices", "Alut">>, <<"Gmatrices", "G">>, <<"MA_representation", "C">>}
           \subseteq ret.out.written
    /\ ret.arg.at["betas"] > 0
    /\ heap[<<"caller", "betas">>].version = ret.arg.at["betas"]
    /\ heap[<<"caller", "betas">>].writers = {}
    /\ DOMAIN ret.out.reads = {<<"caller", "betas">>}

====
